---- MODULE Spec2Model ----
(***************************************************************************)
(* A model of core/internal/selection/selection.go (agouti).               *)
(*                                                                         *)
(* A selection holds a driver and a Go slice of selector fragments.  A Go  *)
(* slice is a (pointer, length, capacity) view on a backing array, so the  *)
(* model keeps the backing arrays in a heap and every selection as such a  *)
(* view.  Strings that the code concatenates (the fragments, the rendered  *)
(* path) are sequences of characters; strings the code only compares or    *)
(* passes on (element texts, attribute names) are atoms.                   *)
(***************************************************************************)
EXTENDS Integers, Sequences, FiniteSets, TLC

VARIABLES
    arrays,      \* the heap: backing arrays of []string, in allocation order
    sels,        \* the selections constructed so far: slice headers into arrays
    origin,      \* history: per selection, how it was constructed
    dom,         \* remote document: the elements currently present
    selected,    \* remote document: the elements whose selected-state is true
    proc         \* per caller: the operation in progress and its locals

vars == <<arrays, sels, origin, dom, selected, proc>>

(***************************************************************************)
(* Bounds of the model.                                                    *)
(***************************************************************************)
MaxSels == 5

(* The selector fragments callers pass to New and Find. *)
Option == <<"o", "p", "t", "i", "o", "n">>

Frags == {<<"a">>, Option}

(* The zero value of a Go string. *)
EmptyString == <<>>

(***************************************************************************)
(* strings.Join(elems, sep)                                                *)
(***************************************************************************)
RECURSIVE Join(_, _)
Join(elems, sep) ==
    IF Len(elems) = 0 THEN EmptyString
    ELSE IF Len(elems) = 1 THEN elems[1]
    ELSE elems[1] \o sep \o Join(Tail(elems), sep)

(***************************************************************************)
(* The builtin append on a []string.  When the slice has spare capacity    *)
(* the element is stored in the slice's own backing array, at the index    *)
(* just past its length; otherwise the runtime allocates a new array of    *)
(* grown capacity, copies the slice's elements and stores the new one.     *)
(* The result is the new heap and the new slice header.                    *)
(***************************************************************************)
growslice(oldCap, needed) ==
    IF needed > 2 * oldCap THEN needed ELSE 2 * oldCap

append(heap, slice, elem) ==
    IF slice.len < slice.cap
    THEN [arrays |-> [heap EXCEPT ![slice.ptr][slice.len + 1] = elem],
          slice  |-> [slice EXCEPT !.len = slice.len + 1]]
    ELSE LET newCap == growslice(slice.cap, slice.len + 1)
             fresh  == [i \in 1..newCap |->
                           IF i <= slice.len THEN heap[slice.ptr][i]
                           ELSE IF i = slice.len + 1 THEN elem
                           ELSE EmptyString]
         IN  [arrays |-> Append(heap, fresh),
              slice  |-> [ptr |-> Len(heap) + 1,
                          len |-> slice.len + 1,
                          cap |-> newCap]]

(* The elements a slice header shows of its backing array. *)
Elements(heap, slice) == SubSeq(heap[slice.ptr], 1, slice.len)

(***************************************************************************)
(* New, Find and Selector as functions of the heap.                        *)
(***************************************************************************)
NewSelection(heap, selector) ==
    [arrays |-> Append(heap, <<selector>>),
     slice  |-> [ptr |-> Len(heap) + 1, len |-> 1, cap |-> 1]]

FindSelection(heap, s, selector) == append(heap, s, selector)

SelectorUnspaced(heap, s) == Join(Elements(heap, s), EmptyString)

Selector(heap, s) == Join(Elements(heap, s), <<" ">>)

(* The path selection number i renders in the current state. *)
SelectorOf(i) == Selector(arrays, sels[i])

(***************************************************************************)
(* Construction steps.  origin records, for each selection, the receiver   *)
(* it was made from (0 for New), the fragment passed, the path the new     *)
(* selection rendered when it was returned, and the path the receiver      *)
(* rendered immediately before and immediately after the call.             *)
(***************************************************************************)
New(selector) ==
    /\ Len(sels) < MaxSels
    /\ LET r == NewSelection(arrays, selector)
       IN  /\ arrays' = r.arrays
           /\ sels' = Append(sels, r.slice)
           /\ origin' = Append(origin, [recv |-> 0, frag |-> selector,
                                        path |-> Selector(r.arrays, r.slice),
                                        recvBefore |-> EmptyString,
                                        recvAfter  |-> EmptyString])
    /\ UNCHANGED <<dom, selected, proc>>

Find(i, selector) ==
    /\ Len(sels) < MaxSels
    /\ i \in 1..Len(sels)
    /\ LET r == FindSelection(arrays, sels[i], selector)
       IN  /\ arrays' = r.arrays
           /\ sels' = Append(sels, r.slice)
           /\ origin' = Append(origin, [recv |-> i, frag |-> selector,
                                        path |-> Selector(r.arrays, r.slice),
                                        recvBefore |-> Selector(arrays, sels[i]),
                                        recvAfter  |-> Selector(r.arrays, sels[i])])
    /\ UNCHANGED <<dom, selected, proc>>

InitChain ==
    /\ arrays = <<>>
    /\ sels = <<>>
    /\ origin = <<>>
    /\ dom = {}
    /\ selected = {}
    /\ proc = <<>>

NextChain ==
    \/ \E f \in Frags : New(f)
    \/ \E i \in 1..MaxSels, f \in Frags : Find(i, f)

SpecChain == InitChain /\ [][NextChain]_vars

(***************************************************************************)
(* The remote document, owned by the driver's side.  Each node has a tag   *)
(* name, a type attribute, a text and a display property; dom is the set   *)
(* of nodes present, in document order by number.  A selector path built   *)
(* from tag-name fragments matches the present nodes whose tag is the      *)
(* path's last fragment.                                                   *)
(***************************************************************************)
ElementTable ==
    << [tag |-> <<"a">>, type |-> "checkbox", text |-> "A", display |-> "block"],
       [tag |-> Option,  type |-> "",         text |-> "A", display |-> "none"],
       [tag |-> Option,  type |-> "",         text |-> "B", display |-> "block"],
       [tag |-> Option,  type |-> "",         text |-> "B", display |-> "block"] >>

Nodes == DOMAIN ElementTable

RECURSIVE LastFragment(_)
LastFragment(path) ==
    IF \E k \in DOMAIN path : path[k] = " "
    THEN LastFragment(Tail(path))
    ELSE path

Resolve(selector) ==
    SelectSeq([n \in Nodes |-> n],
              LAMBDA n : n \in dom /\ ElementTable[n].tag = LastFragment(selector))

(* The live document changes under the caller: a node appears or          *)
(* disappears, or a checkbox is toggled by someone else.                   *)
RemoteChange ==
    /\ \/ \E n \in Nodes :
            /\ dom' = IF n \in dom THEN dom \ {n} ELSE dom \cup {n}
            /\ selected' = selected
       \/ \E n \in Nodes :
            /\ ElementTable[n].type = "checkbox"
            /\ selected' = IF n \in selected THEN selected \ {n}
                           ELSE selected \cup {n}
            /\ dom' = dom
    /\ UNCHANGED <<arrays, sels, origin, proc>>

(***************************************************************************)
(* Errors.  fmt.Errorf(format, args...) is the format with its arguments   *)
(* by role; nil is the absent error.  The driver and the element report    *)
(* failures of their own.                                                  *)
(***************************************************************************)
NoArgs == [x \in {} |-> x]

nil == [fmt |-> "nil", args |-> NoArgs]

IsNil(err) == err.fmt = "nil"

Errorf(format, args) == [fmt |-> format, args |-> args]

DriverError == [fmt |-> "driver error", args |-> NoArgs]

ElementError == [fmt |-> "element error", args |-> NoArgs]

(***************************************************************************)
(* The driver boundary and the element handle.  Whether a call succeeds    *)
(* is the remote side's choice (ok); a call on a node that has left the    *)
(* document cannot succeed.                                                *)
(***************************************************************************)
GetElements(selector, ok) ==
    IF ok THEN [elements |-> Resolve(selector), err |-> nil]
    ELSE [elements |-> <<>>, err |-> DriverError]

Outcomes(element) == IF element \in dom THEN BOOLEAN ELSE {FALSE}

GetText(element) == ElementTable[element].text

GetAttribute(element, attribute) ==
    IF attribute = "type" THEN ElementTable[element].type ELSE ""

GetCSS(element, property) ==
    IF property = "display" THEN ElementTable[element].display ELSE ""

IsSelected(element) == element \in selected

IsDisplayed(element) == ElementTable[element].display # "none"

(* The selected-state after a click on the element: a checkbox toggles.    *)
Clicked(element, ok) ==
    IF ok /\ ElementTable[element].type = "checkbox"
    THEN IF element \in selected THEN selected \ {element}
         ELSE selected \cup {element}
    ELSE selected

(***************************************************************************)
(* Callers.  A caller is idle (its last call, if any, has returned: op,    *)
(* sel, arg, calls and ret describe it) or inside an operation, at the     *)
(* source line of the next call it makes to the driver or the element.     *)
(* calls is the history of the driver and element calls of the operation.  *)
(***************************************************************************)
Callers == {1}

NoRet == [val |-> "", err |-> nil]

(* History kept only by the specification that follows consecutive calls:  *)
(* what the previous call of the same operation on the same selection      *)
(* resolved, and whether it returned success.                              *)
NoPrev(track) ==
    [track |-> track, known |-> FALSE, elements |-> <<>>, succeeded |-> FALSE]

Fresh(track) ==
    [pc |-> "idle", op |-> "none", sel |-> 0, arg |-> "",
     element |-> 0, elements |-> <<>>, i |-> 0,
     calls |-> <<>>, ret |-> NoRet, prev |-> NoPrev(track)]

Started(c, op, s, arg) ==
    LET old == proc[c] IN
    [Fresh(old.prev.track) EXCEPT
        !.op = op, !.sel = s, !.arg = arg,
        !.prev = IF old.prev.track /\ old.op = op /\ old.sel = s /\ old.calls[1].ok
                 THEN [track |-> TRUE, known |-> TRUE,
                       elements |-> old.calls[1].elements,
                       succeeded |-> IsNil(old.ret.err)]
                 ELSE NoPrev(old.prev.track)]

At(p, pc, element, calls) ==
    [p EXCEPT !.pc = pc, !.element = element, !.calls = calls]

Returned(p, calls, val, err) ==
    [p EXCEPT !.pc = "idle", !.element = 0, !.elements = <<>>, !.i = 0,
              !.calls = calls, !.ret = [val |-> val, err |-> err]]

(* The receiver's rendered path, as every operation evaluates it. *)
PathOf(c) == Selector(arrays, sels[proc[c].sel])

(***************************************************************************)
(* getSingleElement: the result, with the driver call it made.             *)
(***************************************************************************)
getSingleElementRoot(s, ok) ==
    LET root == Elements(arrays, s)[1]
        r == GetElements(root, ok)
        call == [fn |-> "GetElements", selector |-> root,
                 ok |-> ok, elements |-> r.elements]
    IN  IF ~IsNil(r.err)
        THEN [calls |-> <<call>>, element |-> 0, err |-> r.err]
        ELSE IF Len(r.elements) > 1
        THEN [calls |-> <<call>>, element |-> 0,
              err |-> Errorf("mutiple elements (%d) were selected",
                             [count |-> Len(r.elements)])]
        ELSE IF Len(r.elements) = 0
        THEN [calls |-> <<call>>, element |-> 0,
              err |-> Errorf("no element found", NoArgs)]
        ELSE [calls |-> <<call>>, element |-> r.elements[1], err |-> nil]

getSingleElementFirst(s, ok) ==
    LET r == GetElements(Selector(arrays, s), ok)
        call == [fn |-> "GetElements", selector |-> Selector(arrays, s),
                 ok |-> ok, elements |-> r.elements]
    IN  IF ~IsNil(r.err)
        THEN [calls |-> <<call>>, element |-> 0, err |-> r.err]
        ELSE IF Len(r.elements) = 0
        THEN [calls |-> <<call>>, element |-> 0,
              err |-> Errorf("no element found", NoArgs)]
        ELSE [calls |-> <<call>>, element |-> r.elements[1], err |-> nil]

getSingleElementOffByOne(s, ok) ==
    LET r == GetElements(Selector(arrays, s), ok)
        call == [fn |-> "GetElements", selector |-> Selector(arrays, s),
                 ok |-> ok, elements |-> r.elements]
    IN  IF ~IsNil(r.err)
        THEN [calls |-> <<call>>, element |-> 0, err |-> r.err]
        ELSE IF Len(r.elements) > 2
        THEN [calls |-> <<call>>, element |-> 0,
              err |-> Errorf("mutiple elements (%d) were selected",
                             [count |-> Len(r.elements)])]
        ELSE IF Len(r.elements) = 0
        THEN [calls |-> <<call>>, element |-> 0,
              err |-> Errorf("no element found", NoArgs)]
        ELSE [calls |-> <<call>>, element |-> r.elements[1], err |-> nil]

getSingleElement(s, ok) ==
    LET r == GetElements(Selector(arrays, s), ok)
        call == [fn |-> "GetElements", selector |-> Selector(arrays, s),
                 ok |-> ok, elements |-> r.elements]
    IN  IF ~IsNil(r.err)
        THEN [calls |-> <<call>>, element |-> 0, err |-> r.err]
        ELSE IF Len(r.elements) > 1
        THEN [calls |-> <<call>>, element |-> 0,
              err |-> Errorf("mutiple elements (%d) were selected",
                             [count |-> Len(r.elements)])]
        ELSE IF Len(r.elements) = 0
        THEN [calls |-> <<call>>, element |-> 0,
              err |-> Errorf("no element found", NoArgs)]
        ELSE [calls |-> <<call>>, element |-> r.elements[1], err |-> nil]

(***************************************************************************)
(* The opening of every single-element operation (Click, DoubleClick,      *)
(* Fill, setChecked, Text, Attribute, CSS, Selected, Visible, Submit):     *)
(*     element, err := s.getSingleElement()                                *)
(*     if err != nil { return ..., fmt.Errorf("failed to retrieve element  *)
(*                         with selector '%s': %s", s.Selector(), err) }   *)
(* zero is the operation's zero result, next its following line.           *)
(***************************************************************************)
Retrieve(c, op, s, arg, zero, next) ==
    /\ proc[c].pc = "idle"
    /\ s \in 1..Len(sels)
    /\ \E ok \in BOOLEAN :
         LET r == getSingleElement(sels[s], ok)
             p == Started(c, op, s, arg)
         IN  proc' = [proc EXCEPT ![c] =
                 IF IsNil(r.err)
                 THEN At(p, next, r.element, r.calls)
                 ELSE Returned(p, r.calls, zero,
                          Errorf("failed to retrieve element with selector '%s': %s",
                                 [selector |-> Selector(arrays, sels[s]),
                                  cause |-> r.err]))]
    /\ UNCHANGED <<arrays, sels, origin, dom, selected>>

(* A step of caller c inside operation op, at line pc. *)
Inside(c, op, pc) == proc[c].op = op /\ proc[c].pc = pc

(* The history entry of a call on the element handle. *)
ElementCall(fn, element, ok) == [fn |-> fn, element |-> element, ok |-> ok]

WrapBare(c, format, ok, cause) ==
    IF ok THEN nil ELSE cause

Wrap(c, format, ok, cause) ==
    IF ok THEN nil
    ELSE Errorf(format, [selector |-> PathOf(c), cause |-> cause])

(***************************************************************************)
(* Count                                                                   *)
(***************************************************************************)
CountNonEmpty(c, s) ==
    /\ proc[c].pc = "idle"
    /\ s \in 1..Len(sels)
    /\ \E ok \in BOOLEAN :
         LET path == Selector(arrays, sels[s])
             r == GetElements(path, ok)
             call == [fn |-> "GetElements", selector |-> path,
                      ok |-> ok, elements |-> r.elements]
             p == Started(c, "Count", s, "")
         IN  proc' = [proc EXCEPT ![c] =
                 IF ~IsNil(r.err)
                 THEN Returned(p, <<call>>, 0,
                          Errorf("failed to retrieve elements for selector '%s': %s",
                                 [selector |-> Selector(arrays, sels[s]),
                                  cause |-> r.err]))
                 ELSE IF Len(r.elements) = 0
                 THEN Returned(p, <<call>>, 0,
                          Errorf("failed to retrieve elements for selector '%s': %s",
                                 [selector |-> Selector(arrays, sels[s]),
                                  cause |-> Errorf("no element found", NoArgs)]))
                 ELSE Returned(p, <<call>>, Len(r.elements), nil)]
    /\ UNCHANGED <<arrays, sels, origin, dom, selected>>

Count(c, s) ==
    /\ proc[c].pc = "idle"
    /\ s \in 1..Len(sels)
    /\ \E ok \in BOOLEAN :
         LET path == Selector(arrays, sels[s])
             r == GetElements(path, ok)
             call == [fn |-> "GetElements", selector |-> path,
                      ok |-> ok, elements |-> r.elements]
             p == Started(c, "Count", s, "")
         IN  proc' = [proc EXCEPT ![c] =
                 IF ~IsNil(r.err)
                 THEN Returned(p, <<call>>, 0,
                          Errorf("failed to retrieve elements for selector '%s': %s",
                                 [selector |-> Selector(arrays, sels[s]),
                                  cause |-> r.err]))
                 ELSE Returned(p, <<call>>, Len(r.elements), nil)]
    /\ UNCHANGED <<arrays, sels, origin, dom, selected>>

(***************************************************************************)
(* Click                                                                   *)
(***************************************************************************)
Click(c, s) ==
    \/ Retrieve(c, "Click", s, "", "", "Click65")
    \/ /\ Inside(c, "Click", "Click65")
       /\ s = proc[c].sel
       /\ \E ok \in Outcomes(proc[c].element) :
            /\ selected' = Clicked(proc[c].element, ok)
            /\ proc' = [proc EXCEPT ![c] = Returned(@,
                   Append(@.calls, ElementCall("Click", @.element, ok)), "",
                   Wrap(c, "failed to click on selector '%s': %s", ok, ElementError))]
       /\ UNCHANGED <<arrays, sels, origin, dom>>

(***************************************************************************)
(* DoubleClick                                                             *)
(***************************************************************************)
DoubleClickMoveToIgnored(c) ==
    /\ Inside(c, "DoubleClick", "DoubleClick77")
    /\ \E ok \in Outcomes(proc[c].element) :
         LET call == [fn |-> "MoveTo", element |-> proc[c].element,
                      point |-> "nil", ok |-> ok]
         IN  proc' = [proc EXCEPT ![c] =
                 At(@, "DoubleClick81", @.element, Append(@.calls, call))]
    /\ UNCHANGED <<arrays, sels, origin, dom, selected>>

DoubleClickMoveTo(c) ==
    /\ Inside(c, "DoubleClick", "DoubleClick77")
    /\ \E ok \in Outcomes(proc[c].element) :
         LET call == [fn |-> "MoveTo", element |-> proc[c].element,
                      point |-> "nil", ok |-> ok]
         IN  proc' = [proc EXCEPT ![c] =
                 IF ok THEN At(@, "DoubleClick81", @.element, Append(@.calls, call))
                 ELSE Returned(@, Append(@.calls, call), "",
                          Wrap(c, "failed to move mouse to selector '%s': %s",
                               ok, DriverError))]
    /\ UNCHANGED <<arrays, sels, origin, dom, selected>>

DoubleClickGesture(c) ==
    /\ Inside(c, "DoubleClick", "DoubleClick81")
    /\ \E ok \in BOOLEAN :
         proc' = [proc EXCEPT ![c] = Returned(@,
             Append(@.calls, [fn |-> "DoubleClick", ok |-> ok]), "",
             Wrap(c, "failed to double-click on selector '%s': %s", ok, DriverError))]
    /\ UNCHANGED <<arrays, sels, origin, dom, selected>>

DoubleClick(c, s) ==
    \/ Retrieve(c, "DoubleClick", s, "", "", "DoubleClick77")
    \/ s = proc[c].sel /\ DoubleClickMoveTo(c)
    \/ s = proc[c].sel /\ DoubleClickGesture(c)

(***************************************************************************)
(* Fill                                                                    *)
(***************************************************************************)
FillClearIgnored(c) ==
    /\ Inside(c, "Fill", "Fill93")
    /\ \E ok \in Outcomes(proc[c].element) :
         LET call == ElementCall("Clear", proc[c].element, ok)
         IN  proc' = [proc EXCEPT ![c] =
                 At(@, "Fill97", @.element, Append(@.calls, call))]
    /\ UNCHANGED <<arrays, sels, origin, dom, selected>>

FillClear(c) ==
    /\ Inside(c, "Fill", "Fill93")
    /\ \E ok \in Outcomes(proc[c].element) :
         LET call == ElementCall("Clear", proc[c].element, ok)
         IN  proc' = [proc EXCEPT ![c] =
                 IF ok THEN At(@, "Fill97", @.element, Append(@.calls, call))
                 ELSE Returned(@, Append(@.calls, call), "",
                          Wrap(c, "failed to clear selector '%s': %s",
                               ok, ElementError))]
    /\ UNCHANGED <<arrays, sels, origin, dom, selected>>

FillValue(c) ==
    /\ Inside(c, "Fill", "Fill97")
    /\ \E ok \in Outcomes(proc[c].element) :
         proc' = [proc EXCEPT ![c] = Returned(@,
             Append(@.calls, [fn |-> "Value", element |-> @.element,
                              text |-> @.arg, ok |-> ok]), "",
             Wrap(c, "failed to enter text into selector '%s': %s", ok, ElementError))]
    /\ UNCHANGED <<arrays, sels, origin, dom, selected>>

Fill(c, s, text) ==
    \/ Retrieve(c, "Fill", s, text, "", "Fill93")
    \/ s = proc[c].sel /\ FillClear(c) /\ text = proc[c].arg
    \/ s = proc[c].sel /\ FillValue(c) /\ text = proc[c].arg

(***************************************************************************)
(* Check, Uncheck, setChecked                                              *)
(***************************************************************************)
NeedsClickAlways(isSelected, checked) == TRUE

NeedsClickInverted(isSelected, checked) == isSelected = checked

NeedsClickNever(isSelected, checked) == FALSE

NeedsClick(isSelected, checked) == isSelected # checked

setChecked(c, s, checked) ==
    LET op == IF checked THEN "Check" ELSE "Uncheck" IN
    \/ Retrieve(c, op, s, "", "", "setChecked117")
    \/ /\ Inside(c, op, "setChecked117")
       /\ s = proc[c].sel
       /\ \E ok \in Outcomes(proc[c].element) :
            LET elementType == IF ok THEN GetAttribute(proc[c].element, "type") ELSE ""
                call == [fn |-> "GetAttribute", element |-> proc[c].element,
                         attribute |-> "type", ok |-> ok, ret |-> elementType]
            IN  proc' = [proc EXCEPT ![c] =
                    IF ~ok
                    THEN Returned(@, Append(@.calls, call), "",
                             Wrap(c, "failed to retrieve type of selector '%s': %s",
                                  ok, ElementError))
                    ELSE IF elementType # "checkbox"
                    THEN Returned(@, Append(@.calls, call), "",
                             Errorf("selector '%s' does not refer to a checkbox",
                                    [selector |-> PathOf(c)]))
                    ELSE At(@, "setChecked126", @.element, Append(@.calls, call))]
       /\ UNCHANGED <<arrays, sels, origin, dom, selected>>
    \/ /\ Inside(c, op, "setChecked126")
       /\ s = proc[c].sel
       /\ \E ok \in Outcomes(proc[c].element) :
            LET isSelected == IF ok THEN IsSelected(proc[c].element) ELSE FALSE
                call == [fn |-> "IsSelected", element |-> proc[c].element,
                         ok |-> ok, ret |-> isSelected]
            IN  proc' = [proc EXCEPT ![c] =
                    IF ~ok
                    THEN Returned(@, Append(@.calls, call), "",
                             Wrap(c, "failed to retrieve state of selector '%s': %s",
                                  ok, ElementError))
                    ELSE IF NeedsClick(isSelected, checked)
                    THEN At(@, "setChecked132", @.element, Append(@.calls, call))
                    ELSE Returned(@, Append(@.calls, call), "", nil)]
       /\ UNCHANGED <<arrays, sels, origin, dom, selected>>
    \/ /\ Inside(c, op, "setChecked132")
       /\ s = proc[c].sel
       /\ \E ok \in Outcomes(proc[c].element) :
            /\ selected' = Clicked(proc[c].element, ok)
            /\ proc' = [proc EXCEPT ![c] = Returned(@,
                   Append(@.calls, ElementCall("Click", @.element, ok)), "",
                   Wrap(c, "failed to click selector '%s': %s", ok, ElementError))]
       /\ UNCHANGED <<arrays, sels, origin, dom>>

Check(c, s) == setChecked(c, s, TRUE)

Uncheck(c, s) == setChecked(c, s, FALSE)

(***************************************************************************)
(* The read operations: Text, Attribute, CSS, Selected, Visible.  Each     *)
(* relays one read of the element; Read states the shared shape, with the  *)
(* value the element returns and the message of the operation.             *)
(***************************************************************************)
ReadSwallowed(c, op, pc, fn, value, zero, format) ==
    /\ Inside(c, op, pc)
    /\ \E ok \in Outcomes(proc[c].element) :
         LET ret == IF ok THEN value ELSE zero
         IN  proc' = [proc EXCEPT ![c] = Returned(@,
                 Append(@.calls, [fn |-> fn, element |-> @.element,
                                  ok |-> ok, ret |-> ret]),
                 ret, nil)]
    /\ UNCHANGED <<arrays, sels, origin, dom, selected>>

Read(c, op, pc, fn, value, zero, format) ==
    /\ Inside(c, op, pc)
    /\ \E ok \in Outcomes(proc[c].element) :
         LET ret == IF ok THEN value ELSE zero
         IN  proc' = [proc EXCEPT ![c] = Returned(@,
                 Append(@.calls, [fn |-> fn, element |-> @.element,
                                  ok |-> ok, ret |-> ret]),
                 ret, Wrap(c, format, ok, ElementError))]
    /\ UNCHANGED <<arrays, sels, origin, dom, selected>>

Text(c, s) ==
    \/ Retrieve(c, "Text", s, "", "", "Text146")
    \/ /\ s = proc[c].sel
       /\ Read(c, "Text", "Text146", "GetText", GetText(proc[c].element), "",
               "failed to retrieve text for selector '%s': %s")

Attribute(c, s, attribute) ==
    \/ Retrieve(c, "Attribute", s, attribute, "", "Attribute159")
    \/ /\ Inside(c, "Attribute", "Attribute159")
       /\ s = proc[c].sel /\ attribute = proc[c].arg
       /\ Read(c, "Attribute", "Attribute159", "GetAttribute",
               GetAttribute(proc[c].element, attribute), "",
               "failed to retrieve attribute value for selector '%s': %s")

CSS(c, s, property) ==
    \/ Retrieve(c, "CSS", s, property, "", "CSS172")
    \/ /\ Inside(c, "CSS", "CSS172")
       /\ s = proc[c].sel /\ property = proc[c].arg
       /\ Read(c, "CSS", "CSS172", "GetCSS",
               GetCSS(proc[c].element, property), "",
               "failed to retrieve CSS property for selector '%s': %s")

Selected(c, s) ==
    \/ Retrieve(c, "Selected", s, "", FALSE, "Selected185")
    \/ /\ s = proc[c].sel
       /\ Read(c, "Selected", "Selected185", "IsSelected",
               IsSelected(proc[c].element), FALSE,
               "failed to determine whether selector '%s' is selected: %s")

Visible(c, s) ==
    \/ Retrieve(c, "Visible", s, "", FALSE, "Visible199")
    \/ /\ s = proc[c].sel
       /\ Read(c, "Visible", "Visible199", "IsDisplayed",
               IsDisplayed(proc[c].element), FALSE,
               "failed to determine whether selector '%s' is visible: %s")

(***************************************************************************)
(* Select                                                                  *)
(***************************************************************************)
MatchesNot(elementText, text) == elementText # text

Matches(elementText, text) == elementText = text

NoOptions(c, text, path) ==
    Errorf("no options with text \"%s\" found for selector '%s'",
           [text |-> text, selector |-> path])

SelectSkipsUnreadable(c, s, text) ==
    \/ /\ proc[c].pc = "idle"
       /\ s \in 1..Len(sels)
       /\ \E ok \in BOOLEAN :
            LET path == Selector(arrays, sels[s])
                r == GetElements(path \o <<" ">> \o Option, ok)
                call == [fn |-> "GetElements", selector |-> path \o <<" ">> \o Option,
                         ok |-> ok, elements |-> r.elements]
                p == Started(c, "Select", s, text)
            IN  proc' = [proc EXCEPT ![c] =
                    IF ~IsNil(r.err)
                    THEN Returned(p, <<call>>, "",
                             Errorf("failed to retrieve options for selector '%s': %s",
                                    [selector |-> Selector(arrays, sels[s]),
                                     cause |-> r.err]))
                    ELSE IF Len(r.elements) = 0
                    THEN Returned(p, <<call>>, "", NoOptions(c, text, path))
                    ELSE [p EXCEPT !.pc = "Select214", !.elements = r.elements,
                                   !.i = 1, !.calls = <<call>>]]
       /\ UNCHANGED <<arrays, sels, origin, dom, selected>>
    \/ /\ Inside(c, "Select", "Select214")
       /\ s = proc[c].sel /\ text = proc[c].arg
       /\ LET element == proc[c].elements[proc[c].i] IN
          \E ok \in Outcomes(element) :
            LET elementText == IF ok THEN GetText(element) ELSE ""
                call == [fn |-> "GetText", element |-> element,
                         ok |-> ok, ret |-> elementText]
            IN  proc' = [proc EXCEPT ![c] =
                    IF ~ok /\ proc[c].i < Len(proc[c].elements)
                    THEN [@ EXCEPT !.i = @ + 1, !.calls = Append(@, call)]
                    ELSE IF ~ok
                    THEN Returned(@, Append(@.calls, call), "",
                             NoOptions(c, text, PathOf(c)))
                    ELSE IF Matches(elementText, text)
                    THEN [@ EXCEPT !.pc = "Select220", !.calls = Append(@, call)]
                    ELSE IF proc[c].i < Len(proc[c].elements)
                    THEN [@ EXCEPT !.i = @ + 1, !.calls = Append(@, call)]
                    ELSE Returned(@, Append(@.calls, call), "",
                             NoOptions(c, text, PathOf(c)))]
       /\ UNCHANGED <<arrays, sels, origin, dom, selected>>
    \/ /\ Inside(c, "Select", "Select220")
       /\ s = proc[c].sel /\ text = proc[c].arg
       /\ LET element == proc[c].elements[proc[c].i] IN
          \E ok \in Outcomes(element) :
            /\ selected' = Clicked(element, ok)
            /\ proc' = [proc EXCEPT ![c] = Returned(@,
                   Append(@.calls, ElementCall("Click", element, ok)), "",
                   IF ok THEN nil
                   ELSE Errorf("failed to click on option with text \"%s\" for selector '%s': %s",
                               [text |-> proc[c].calls[Len(proc[c].calls)].ret,
                                selector |-> PathOf(c),
                                cause |-> ElementError]))]
       /\ UNCHANGED <<arrays, sels, origin, dom>>

Select(c, s, text) ==
    \/ /\ proc[c].pc = "idle"
       /\ s \in 1..Len(sels)
       /\ \E ok \in BOOLEAN :
            LET path == Selector(arrays, sels[s])
                r == GetElements(path \o <<" ">> \o Option, ok)
                call == [fn |-> "GetElements", selector |-> path \o <<" ">> \o Option,
                         ok |-> ok, elements |-> r.elements]
                p == Started(c, "Select", s, text)
            IN  proc' = [proc EXCEPT ![c] =
                    IF ~IsNil(r.err)
                    THEN Returned(p, <<call>>, "",
                             Errorf("failed to retrieve options for selector '%s': %s",
                                    [selector |-> Selector(arrays, sels[s]),
                                     cause |-> r.err]))
                    ELSE IF Len(r.elements) = 0
                    THEN Returned(p, <<call>>, "", NoOptions(c, text, path))
                    ELSE [p EXCEPT !.pc = "Select214", !.elements = r.elements,
                                   !.i = 1, !.calls = <<call>>]]
       /\ UNCHANGED <<arrays, sels, origin, dom, selected>>
    \/ /\ Inside(c, "Select", "Select214")
       /\ s = proc[c].sel /\ text = proc[c].arg
       /\ LET element == proc[c].elements[proc[c].i] IN
          \E ok \in Outcomes(element) :
            LET elementText == IF ok THEN GetText(element) ELSE ""
                call == [fn |-> "GetText", element |-> element,
                         ok |-> ok, ret |-> elementText]
            IN  proc' = [proc EXCEPT ![c] =
                    IF ~ok
                    THEN Returned(@, Append(@.calls, call), "",
                             Wrap(c, "failed to retrieve option text for selector '%s': %s",
                                  ok, ElementError))
                    ELSE IF Matches(elementText, text)
                    THEN [@ EXCEPT !.pc = "Select220", !.calls = Append(@, call)]
                    ELSE IF proc[c].i < Len(proc[c].elements)
                    THEN [@ EXCEPT !.i = @ + 1, !.calls = Append(@, call)]
                    ELSE Returned(@, Append(@.calls, call), "",
                             NoOptions(c, text, PathOf(c)))]
       /\ UNCHANGED <<arrays, sels, origin, dom, selected>>
    \/ /\ Inside(c, "Select", "Select220")
       /\ s = proc[c].sel /\ text = proc[c].arg
       /\ LET element == proc[c].elements[proc[c].i] IN
          \E ok \in Outcomes(element) :
            /\ selected' = Clicked(element, ok)
            /\ proc' = [proc EXCEPT ![c] = Returned(@,
                   Append(@.calls, ElementCall("Click", element, ok)), "",
                   IF ok THEN nil
                   ELSE Errorf("failed to click on option with text \"%s\" for selector '%s': %s",
                               [text |-> proc[c].calls[Len(proc[c].calls)].ret,
                                selector |-> PathOf(c),
                                cause |-> ElementError]))]
       /\ UNCHANGED <<arrays, sels, origin, dom>>

(***************************************************************************)
(* Submit                                                                  *)
(***************************************************************************)
Submit(c, s) ==
    \/ Retrieve(c, "Submit", s, "", "", "Submit236")
    \/ /\ Inside(c, "Submit", "Submit236")
       /\ s = proc[c].sel
       /\ \E ok \in Outcomes(proc[c].element) :
            proc' = [proc EXCEPT ![c] = Returned(@,
                Append(@.calls, ElementCall("Submit", @.element, ok)), "",
                Wrap(c, "failed to submit selector '%s': %s", ok, ElementError))]
       /\ UNCHANGED <<arrays, sels, origin, dom, selected>>

(***************************************************************************)
(* The operations run on selections built by New and Find: initially a     *)
(* root selection and one found from it with the other fragment exist,     *)
(* the document holds any subset of its nodes, and no call has been made.  *)
(***************************************************************************)
Texts == {"B", "Z"}

Init ==
    /\ \E f \in Frags : \E g \in Frags \ {f} :
         LET root == NewSelection(<<>>, f)
             sub  == FindSelection(root.arrays, root.slice, g)
         IN  /\ arrays = sub.arrays
             /\ sels = <<root.slice, sub.slice>>
             /\ origin = << [recv |-> 0, frag |-> f,
                             path |-> Selector(root.arrays, root.slice),
                             recvBefore |-> EmptyString, recvAfter |-> EmptyString],
                            [recv |-> 1, frag |-> g,
                             path |-> Selector(sub.arrays, sub.slice),
                             recvBefore |-> Selector(root.arrays, root.slice),
                             recvAfter |-> Selector(sub.arrays, root.slice)] >>
    /\ dom \in SUBSET Nodes
    /\ selected = {}
    /\ proc = [c \in Callers |-> Fresh(FALSE)]

Next ==
    \/ \E c \in Callers, s \in 1..Len(sels) : Count(c, s)
    \/ \E c \in Callers, s \in 1..Len(sels) : Click(c, s)
    \/ \E c \in Callers, s \in 1..Len(sels) : DoubleClick(c, s)
    \/ \E c \in Callers, s \in 1..Len(sels) : Fill(c, s, "x")
    \/ \E c \in Callers, s \in 1..Len(sels) : Check(c, s)
    \/ \E c \in Callers, s \in 1..Len(sels) : Uncheck(c, s)
    \/ \E c \in Callers, s \in 1..Len(sels) : Text(c, s)
    \/ \E c \in Callers, s \in 1..Len(sels) : Attribute(c, s, "type")
    \/ \E c \in Callers, s \in 1..Len(sels) : CSS(c, s, "display")
    \/ \E c \in Callers, s \in 1..Len(sels) : Selected(c, s)
    \/ \E c \in Callers, s \in 1..Len(sels) : Visible(c, s)
    \/ \E c \in Callers, s \in 1..Len(sels), text \in Texts : Select(c, s, text)
    \/ \E c \in Callers, s \in 1..Len(sels) : Submit(c, s)
    \/ RemoteChange

Spec == Init /\ [][Next]_vars

(***************************************************************************)
(* The same operations, with the history of the previous call kept, on     *)
(* the selections New("a") and New("a").Find("option").                    *)
(***************************************************************************)
InitFresh ==
    /\ LET root == NewSelection(<<>>, <<"a">>)
           sub  == FindSelection(root.arrays, root.slice, Option)
       IN  /\ arrays = sub.arrays
           /\ sels = <<root.slice, sub.slice>>
           /\ origin = << [recv |-> 0, frag |-> <<"a">>,
                           path |-> Selector(root.arrays, root.slice),
                           recvBefore |-> EmptyString, recvAfter |-> EmptyString],
                          [recv |-> 1, frag |-> Option,
                           path |-> Selector(sub.arrays, sub.slice),
                           recvBefore |-> Selector(root.arrays, root.slice),
                           recvAfter |-> Selector(sub.arrays, root.slice)] >>
    /\ dom \in SUBSET Nodes
    /\ selected = {}
    /\ proc = [c \in Callers |-> Fresh(TRUE)]

SpecFresh == InitFresh /\ [][Next]_vars

(***************************************************************************)
(* One caller alone with the document: Check and Uncheck on the            *)
(* selections New("a") and New("a").Find("option"), the checkbox present   *)
(* and nobody else changing the document.                                  *)
(***************************************************************************)
InitToggle ==
    /\ LET root == NewSelection(<<>>, <<"a">>)
           sub  == FindSelection(root.arrays, root.slice, Option)
       IN  /\ arrays = sub.arrays
           /\ sels = <<root.slice, sub.slice>>
           /\ origin = << [recv |-> 0, frag |-> <<"a">>,
                           path |-> Selector(root.arrays, root.slice),
                           recvBefore |-> EmptyString, recvAfter |-> EmptyString],
                          [recv |-> 1, frag |-> Option,
                           path |-> Selector(sub.arrays, sub.slice),
                           recvBefore |-> Selector(root.arrays, root.slice),
                           recvAfter |-> Selector(sub.arrays, root.slice)] >>
    /\ dom \in {d \in SUBSET Nodes : 1 \in d}
    /\ selected \in SUBSET {1}
    /\ proc = [c \in Callers |-> Fresh(TRUE)]

NextToggle ==
    \/ \E c \in Callers, s \in 1..Len(sels) : Check(c, s)
    \/ \E c \in Callers, s \in 1..Len(sels) : Uncheck(c, s)

SpecToggle == InitToggle /\ [][NextToggle]_vars

(***************************************************************************)
(* Two callers calling Check at the same time on the selections New("a")   *)
(* and New("a").Find("option").  Each driver or element call is one step,  *)
(* so the calls of the two callers interleave freely.  The checkbox is     *)
(* present and starts unchecked; only the callers' clicks change it.       *)
(***************************************************************************)
RaceCallers == {1, 2}

InitRace ==
    /\ LET root == NewSelection(<<>>, <<"a">>)
           sub  == FindSelection(root.arrays, root.slice, Option)
       IN  /\ arrays = sub.arrays
           /\ sels = <<root.slice, sub.slice>>
           /\ origin = << [recv |-> 0, frag |-> <<"a">>,
                           path |-> Selector(root.arrays, root.slice),
                           recvBefore |-> EmptyString, recvAfter |-> EmptyString],
                          [recv |-> 1, frag |-> Option,
                           path |-> Selector(sub.arrays, sub.slice),
                           recvBefore |-> Selector(root.arrays, root.slice),
                           recvAfter |-> Selector(sub.arrays, root.slice)] >>
    /\ dom = Nodes
    /\ selected = {}
    /\ proc = [c \in RaceCallers |-> Fresh(FALSE)]

NextRace == \E c \in RaceCallers, s \in 1..Len(sels) : Check(c, s)

SpecRace == InitRace /\ [][NextRace]_vars

(***************************************************************************)
(* Two callers using Find and Selector at the same time, with no           *)
(* synchronisation (the code has none).  They share the chain              *)
(* New("option").Find("option").Find("option"), whose last selection has   *)
(* length 3 and capacity 4; caller 1 passes "a" and caller 2 passes "bb".  *)
(*                                                                         *)
(* Find is two steps: append (selection.go:43), which may store into the   *)
(* receiver's backing array, and the return of the new Selection.  A Go    *)
(* string is a (data pointer, length) pair of machine words; two unordered *)
(* stores to one slot are a data race, and the slot can end with the       *)
(* pointer of one store and the length of the other.  Tear renders such a  *)
(* string: the bytes past the end of the pointed-to literal are not        *)
(* determined by the source and appear as "?".                             *)
(***************************************************************************)
FindCallers == {1, 2}

FindFrag(c) == IF c = 1 THEN <<"a">> ELSE <<"b", "b">>

(* The selections the callers share: the ones neither of them made. *)
Shared(k) == \A c \in FindCallers : origin[k].frag # FindFrag(c)

(* The selection k is the result of a Find that has not returned yet. *)
InFlight(k) ==
    \E c \in DOMAIN proc : proc[c].op = "Find" /\ proc[c].pc = "Find43" /\ proc[c].i = k

Tear(data, length) ==
    [j \in 1..Len(length) |-> IF j <= Len(data) THEN data[j] ELSE "?"]

(* What the slot can hold after caller c's store of f through slice:  f,   *)
(* or a mix with the store of a caller whose Find on the same slot is      *)
(* still in progress.                                                      *)
StoreOutcomes(c, slice, f) ==
    {f} \cup UNION { {Tear(f, proc[d].arg), Tear(proc[d].arg, f)} :
                       d \in {e \in DOMAIN proc \ {c} :
                                 /\ proc[e].op = "Find" /\ proc[e].pc = "Find43"
                                 /\ sels[proc[e].sel].ptr = slice.ptr
                                 /\ sels[proc[e].sel].len = slice.len} }

FindAppend(c, s) ==
    /\ proc[c].pc = "idle"
    /\ Len(sels) < MaxSels
    /\ Shared(s)
    /\ LET f == FindFrag(c)
           r == FindSelection(arrays, sels[s], f)
       IN  /\ IF sels[s].len < sels[s].cap
              THEN \E v \in StoreOutcomes(c, sels[s], f) :
                       arrays' = [r.arrays EXCEPT ![sels[s].ptr][sels[s].len + 1] = v]
              ELSE arrays' = r.arrays
           /\ sels' = Append(sels, r.slice)
           /\ origin' = Append(origin, [recv |-> s, frag |-> f,
                                        path |-> EmptyString,
                                        recvBefore |-> Selector(arrays, sels[s]),
                                        recvAfter  |-> EmptyString])
           /\ proc' = [proc EXCEPT ![c] =
                  [At(Started(c, "Find", s, f), "Find43", 0, <<>>)
                      EXCEPT !.i = Len(sels) + 1]]
    /\ UNCHANGED <<dom, selected>>

FindReturn(c) ==
    /\ Inside(c, "Find", "Find43")
    /\ LET k == proc[c].i
       IN  /\ origin' = [origin EXCEPT ![k].path = SelectorOf(k),
                                       ![k].recvAfter = SelectorOf(proc[c].sel)]
           /\ proc' = [proc EXCEPT ![c] = Returned(proc[c], <<>>, k, nil)]
    /\ UNCHANGED <<arrays, sels, dom, selected>>

(* Selector, called on a shared selection or on a result of the caller's   *)
(* own Find.                                                               *)
SelectorCall(c, k) ==
    /\ proc[c].pc = "idle"
    /\ ~InFlight(k)
    /\ Shared(k) \/ origin[k].frag = FindFrag(c)
    /\ proc' = [proc EXCEPT ![c] =
           Returned(Started(c, "Selector", k, ""), <<>>, SelectorOf(k), nil)]
    /\ UNCHANGED <<arrays, sels, origin, dom, selected>>

InitFind ==
    /\ LET r1 == NewSelection(<<>>, Option)
           r2 == FindSelection(r1.arrays, r1.slice, Option)
           r3 == FindSelection(r2.arrays, r2.slice, Option)
       IN  /\ arrays = r3.arrays
           /\ sels = <<r1.slice, r2.slice, r3.slice>>
           /\ origin = << [recv |-> 0, frag |-> Option,
                           path |-> Selector(r1.arrays, r1.slice),
                           recvBefore |-> EmptyString, recvAfter |-> EmptyString],
                          [recv |-> 1, frag |-> Option,
                           path |-> Selector(r2.arrays, r2.slice),
                           recvBefore |-> Selector(r1.arrays, r1.slice),
                           recvAfter |-> Selector(r2.arrays, r1.slice)],
                          [recv |-> 2, frag |-> Option,
                           path |-> Selector(r3.arrays, r3.slice),
                           recvBefore |-> Selector(r2.arrays, r2.slice),
                           recvAfter |-> Selector(r3.arrays, r2.slice)] >>
    /\ dom = {}
    /\ selected = {}
    /\ proc = [c \in FindCallers |-> Fresh(FALSE)]

NextFind ==
    \/ \E c \in FindCallers, s \in 1..Len(sels) : FindAppend(c, s)
    \/ \E c \in FindCallers : FindReturn(c)
    \/ \E c \in FindCallers, k \in 1..Len(sels) : SelectorCall(c, k)

SpecFind == InitFind /\ [][NextFind]_vars

(***************************************************************************)
(* C1: a Selection is immutable once constructed: whatever New and Find    *)
(* calls follow, every selection still renders the path it rendered when   *)
(* it was constructed.                                                     *)
(***************************************************************************)
C1_Immutable ==
    \A i \in 1..Len(sels) : SelectorOf(i) = origin[i].path

(***************************************************************************)
(* C2: the Selection built by New(f1), Find(f2), ..., Find(fn), each Find  *)
(* called on the result of the previous call, renders f1..fn joined by     *)
(* single spaces, and each Find leaves the path its receiver renders as    *)
(* it was immediately before the call.                                     *)
(***************************************************************************)
IsChain(n) ==
    /\ n <= Len(origin)
    /\ \A k \in 1..n : origin[k].recv = k - 1

RECURSIVE SpacedFragments(_)
SpacedFragments(n) ==
    IF n = 1 THEN origin[1].frag
    ELSE SpacedFragments(n - 1) \o <<" ">> \o origin[n].frag

C2_ChainRenders ==
    IsChain(Len(sels)) =>
        \A k \in 1..Len(sels) :
            /\ origin[k].path = SpacedFragments(k)
            /\ SelectorOf(k) = SpacedFragments(k)
            /\ origin[k].recvBefore = origin[k].recvAfter

(* A chain long enough that a Find stored its fragment in the receiver's   *)
(* own backing array.                                                      *)
C2_Witness ==
    /\ Len(sels) >= 4
    /\ IsChain(Len(sels))
    /\ sels[Len(sels)].ptr = sels[Len(sels) - 1].ptr

(***************************************************************************)
(* Vocabulary of the claims about operations.                              *)
(***************************************************************************)
SingleOps == {"Click", "DoubleClick", "Fill", "Text", "Attribute", "CSS",
              "Check", "Uncheck", "Selected", "Visible", "Submit"}

HasReturned(c) == proc[c].op # "none" /\ proc[c].pc = "idle"

Failed(c) == HasReturned(c) /\ ~IsNil(proc[c].ret.err)

Succeeded(c) == HasReturned(c) /\ IsNil(proc[c].ret.err)

(* The calls named fn in the history of caller c's operation. *)
CallsOf(c, fn) == {j \in DOMAIN proc[c].calls : proc[c].calls[j].fn = fn}

(* The cause wrapped in the error caller c's operation returned. *)
Cause(c) == proc[c].ret.err.args.cause

(***************************************************************************)
(* C3: a single-element operation whose path resolves to 0 elements fails  *)
(* with the not-found condition; resolving to k >= 2 elements it fails     *)
(* with the multiple-elements condition reporting k; only when the path    *)
(* resolves to exactly 1 element does it go on, with that handle.          *)
(***************************************************************************)
C3_Cardinality ==
    \A c \in DOMAIN proc :
        (proc[c].op \in SingleOps /\ proc[c].calls[1].ok) =>
            LET found == proc[c].calls[1].elements
                k == Len(found)
            IN  /\ k = 0 =>
                     /\ Failed(c)
                     /\ Len(proc[c].calls) = 1
                     /\ Cause(c).fmt = "no element found"
                /\ k >= 2 =>
                     /\ Failed(c)
                     /\ Len(proc[c].calls) = 1
                     /\ Cause(c).fmt = "mutiple elements (%d) were selected"
                     /\ Cause(c).args.count = k
                /\ k = 1 =>
                     /\ HasReturned(c) => Len(proc[c].calls) >= 2
                     /\ ~HasReturned(c) => proc[c].element = found[1]
                     /\ \A j \in 2..Len(proc[c].calls) :
                          "element" \in DOMAIN proc[c].calls[j] =>
                              proc[c].calls[j].element = found[1]

C3_Witness ==
    \E c \in DOMAIN proc :
        /\ proc[c].op = "Fill"
        /\ Failed(c)
        /\ proc[c].calls[1].ok
        /\ Len(proc[c].calls[1].elements) = 3
        /\ Cause(c).args.count = 3

(***************************************************************************)
(* C4: Count on a path the driver resolves to k elements returns k and no  *)
(* error, for every k >= 0; it returns an error, and no count, exactly     *)
(* when the driver's resolution call fails.                                *)
(***************************************************************************)
C4_Count ==
    \A c \in DOMAIN proc :
        (HasReturned(c) /\ proc[c].op = "Count") =>
            LET call == proc[c].calls[1]
            IN  /\ Len(proc[c].calls) = 1
                /\ call.fn = "GetElements"
                /\ call.ok =>
                     /\ Succeeded(c)
                     /\ proc[c].ret.val = Len(call.elements)
                /\ ~call.ok =>
                     /\ Failed(c)
                     /\ proc[c].ret.val = 0
                     /\ Cause(c) = DriverError

C4_Witness ==
    \E c \in DOMAIN proc :
        /\ HasReturned(c) /\ proc[c].op = "Count"
        /\ proc[c].calls[1].ok
        /\ proc[c].calls[1].elements = <<>>
        /\ Succeeded(c)
        /\ proc[c].ret.val = 0

(***************************************************************************)
(* C5: Check and Uncheck on a uniquely resolved element: when its type is  *)
(* not "checkbox" the call fails with the precondition condition and       *)
(* issues no click; when it is a checkbox already in the target state the  *)
(* call succeeds with zero clicks; when it is a checkbox in the opposite   *)
(* state the call issues exactly one click.                                *)
(***************************************************************************)
C5_SetChecked ==
    \A c \in DOMAIN proc :
        (HasReturned(c) /\ proc[c].op \in {"Check", "Uncheck"}
            /\ Len(proc[c].calls) >= 2 /\ proc[c].calls[2].ok) =>
            LET target == (proc[c].op = "Check")
                calls == proc[c].calls
                clicks == CallsOf(c, "Click")
            IN  /\ calls[2].fn = "GetAttribute" /\ calls[2].attribute = "type"
                /\ calls[2].ret # "checkbox" =>
                     /\ Failed(c)
                     /\ proc[c].ret.err.fmt = "selector '%s' does not refer to a checkbox"
                     /\ clicks = {}
                /\ (calls[2].ret = "checkbox" /\ Len(calls) >= 3 /\ calls[3].ok) =>
                     /\ calls[3].fn = "IsSelected"
                     /\ calls[3].ret = target => (Succeeded(c) /\ clicks = {})
                     /\ calls[3].ret # target =>
                          /\ Cardinality(clicks) = 1
                          /\ \A j \in clicks : calls[j].element = calls[1].elements[1]

C5_Witness ==
    \E c \in DOMAIN proc :
        /\ HasReturned(c) /\ proc[c].op = "Uncheck"
        /\ Len(proc[c].calls) = 4
        /\ proc[c].calls[3].ret = TRUE
        /\ proc[c].calls[4].fn = "Click" /\ proc[c].calls[4].ok
        /\ Succeeded(c)

(***************************************************************************)
(* C6: Fill(text) on a uniquely resolved element calls clear and then      *)
(* set-value(text), in that order and each at most once; when clear fails  *)
(* set-value is never called and Fill returns an error; Fill returns       *)
(* success only if both calls succeeded.                                   *)
(***************************************************************************)
C6_Fill ==
    \A c \in DOMAIN proc :
        (proc[c].op = "Fill" /\ Len(proc[c].calls) >= 2) =>
            LET calls == proc[c].calls
                e == calls[1].elements[1]
            IN  /\ Len(calls) <= 3
                /\ calls[2] = [fn |-> "Clear", element |-> e, ok |-> calls[2].ok]
                /\ Len(calls) = 3 =>
                     /\ calls[3] = [fn |-> "Value", element |-> e,
                                    text |-> proc[c].arg, ok |-> calls[3].ok]
                     /\ calls[2].ok
                /\ ~calls[2].ok => Failed(c)
                /\ Succeeded(c) => (Len(calls) = 3 /\ calls[2].ok /\ calls[3].ok)

C6_Witness ==
    \E c \in DOMAIN proc :
        /\ proc[c].op = "Fill" /\ Succeeded(c)
        /\ Len(proc[c].calls) = 3
        /\ proc[c].calls[3].text = "x"

(***************************************************************************)
(* C7: DoubleClick on a uniquely resolved element calls the driver's       *)
(* move-to on that element, with no offset point, before the driver's      *)
(* double-click; when move-to fails, double-click is never issued and      *)
(* DoubleClick returns an error.                                           *)
(***************************************************************************)
C7_DoubleClick ==
    \A c \in DOMAIN proc :
        (proc[c].op = "DoubleClick" /\ Len(proc[c].calls) >= 2) =>
            LET calls == proc[c].calls
                e == calls[1].elements[1]
            IN  /\ Len(calls) <= 3
                /\ calls[2] = [fn |-> "MoveTo", element |-> e, point |-> "nil",
                               ok |-> calls[2].ok]
                /\ Len(calls) = 3 => (calls[3].fn = "DoubleClick" /\ calls[2].ok)
                /\ ~calls[2].ok => (Failed(c) /\ CallsOf(c, "DoubleClick") = {})

C7_Witness ==
    \E c \in DOMAIN proc :
        /\ proc[c].op = "DoubleClick" /\ Succeeded(c)
        /\ Len(proc[c].calls) = 3
        /\ proc[c].calls[2].fn = "MoveTo"
        /\ proc[c].calls[3].fn = "DoubleClick"

(***************************************************************************)
(* C8: Select(text) resolves the options of path + " option" and scans     *)
(* them in resolved order.  When every text it reads can be read and an    *)
(* option has the text, it issues exactly one click, on the lowest-index   *)
(* option whose text equals text, reads no option after that one, and      *)
(* returns success when the click succeeds and an error naming the text    *)
(* and the path when the click fails; when no option has the text it       *)
(* clicks nothing and fails naming the text and the path.                  *)
(***************************************************************************)
AllTextsRead(c) == \A j \in CallsOf(c, "GetText") : proc[c].calls[j].ok

(* The positions, in resolved order, of the options whose text is text. *)
Matching(options, text) == {j \in DOMAIN options : GetText(options[j]) = text}

Lowest(S) == CHOOSE m \in S : \A j \in S : m <= j

(* What holds of a returned Select whatever the click's outcome. *)
SelectScans(c) ==
    LET calls == proc[c].calls
        options == calls[1].elements
        text == proc[c].arg
        matching == Matching(options, text)
    IN  /\ matching # {} =>
             LET m == Lowest(matching) IN
             /\ Len(calls) = m + 2
             /\ \A j \in 1..m :
                  /\ calls[j + 1].fn = "GetText"
                  /\ calls[j + 1].element = options[j]
             /\ calls[m + 2].fn = "Click"
             /\ calls[m + 2].element = options[m]
        /\ matching = {} =>
             /\ CallsOf(c, "Click") = {}
             /\ Failed(c)
             /\ proc[c].ret.err.fmt = "no options with text \"%s\" found for selector '%s'"
             /\ proc[c].ret.err.args.text = text
             /\ proc[c].ret.err.args.selector = PathOf(c)

SelectCase(c) ==
    /\ HasReturned(c) /\ proc[c].op = "Select"
    /\ proc[c].calls[1].ok
    /\ AllTextsRead(c)

C8_Select ==
    \A c \in DOMAIN proc :
        SelectCase(c) =>
            /\ SelectScans(c)
            /\ Matching(proc[c].calls[1].elements, proc[c].arg) # {} =>
                 LET click == proc[c].calls[Len(proc[c].calls)] IN
                 /\ click.ok => Succeeded(c)
                 /\ ~click.ok =>
                      /\ Failed(c)
                      /\ proc[c].ret.err.args.text = proc[c].arg
                      /\ proc[c].ret.err.args.selector = PathOf(c)

(* The statement without the click's outcome: a match means success. *)
C8_SelectAlwaysSucceeds ==
    \A c \in DOMAIN proc :
        SelectCase(c) =>
            /\ SelectScans(c)
            /\ Matching(proc[c].calls[1].elements, proc[c].arg) # {} => Succeeded(c)

(* Options with texts A, B, B: the option at the second position is        *)
(* clicked, the third is never read.                                       *)
C8_Witness ==
    \E c \in DOMAIN proc :
        /\ SelectCase(c) /\ Succeeded(c)
        /\ proc[c].arg = "B"
        /\ Len(proc[c].calls[1].elements) = 3
        /\ Matching(proc[c].calls[1].elements, "B") = {2, 3}
        /\ Len(proc[c].calls) = 4
        /\ proc[c].calls[4].element = proc[c].calls[1].elements[2]

(***************************************************************************)
(* C9: every error an operation returns, on every failure path, carries    *)
(* the rendered path of the Selection the operation was called on.         *)
(***************************************************************************)
C9_ErrorNamesPath ==
    \A c \in DOMAIN proc :
        Failed(c) =>
            /\ "selector" \in DOMAIN proc[c].ret.err.args
            /\ proc[c].ret.err.args.selector = PathOf(c)

(* A failure of the last call of the longest operation. *)
C9_Witness ==
    \E c \in DOMAIN proc :
        /\ Failed(c)
        /\ proc[c].op = "Check"
        /\ proc[c].ret.err.fmt = "failed to click selector '%s': %s"
        /\ Len(PathOf(c)) > 1

(***************************************************************************)
(* C10: nothing resolved is kept between calls.  Every call of every       *)
(* operation makes exactly one resolution call to the driver, its first    *)
(* call, with the Selection's full rendered path (path + " option" for     *)
(* Select); the driver answers it from the document as it is then, and     *)
(* every element the operation touches comes from that answer.             *)
(***************************************************************************)
ResolvesOnce(c) ==
    LET calls == proc[c].calls
    IN  /\ CallsOf(c, "GetElements") = {1}
        /\ calls[1].selector =
               IF proc[c].op = "Select" THEN PathOf(c) \o <<" ">> \o Option
               ELSE PathOf(c)
        /\ \A j \in 2..Len(calls) :
             "element" \in DOMAIN calls[j] =>
                 \E k \in DOMAIN calls[1].elements :
                     calls[j].element = calls[1].elements[k]

ResolvesLive(c) ==
    (/\ proc[c].pc = "idle"
     /\ dom' = dom /\ selected' = selected
     /\ proc'[c].op # "none"
     /\ proc'[c].calls[1].ok)
    => proc'[c].calls[1].elements = Resolve(proc'[c].calls[1].selector)

C10_NoCaching ==
    /\ [](\A c \in DOMAIN proc : proc[c].op # "none" => ResolvesOnce(c))
    /\ [][\A c \in DOMAIN proc : ResolvesLive(c)]_vars

(* Two consecutive Text calls on one Selection; the document changed in    *)
(* between and the second call read the element present at its own time.   *)
C10_Witness ==
    \E c \in DOMAIN proc :
        /\ proc[c].op = "Text" /\ Succeeded(c)
        /\ proc[c].prev.known
        /\ Len(proc[c].prev.elements) = 1
        /\ proc[c].prev.elements # proc[c].calls[1].elements
        /\ proc[c].ret.val = GetText(proc[c].calls[1].elements[1])
        /\ proc[c].ret.val # GetText(proc[c].prev.elements[1])

(***************************************************************************)
(* C11: nothing is swallowed or retried.  In every operation a failed      *)
(* call to the driver or to an element is the operation's last call: the   *)
(* operation has then returned, with an error, without repeating the call  *)
(* and without any further call; so no operation returns success after     *)
(* one of its calls failed.                                                *)
(***************************************************************************)
C11_FailureEndsOperation ==
    \A c \in DOMAIN proc :
        proc[c].op # "none" =>
            \A j \in DOMAIN proc[c].calls :
                ~proc[c].calls[j].ok =>
                    /\ j = Len(proc[c].calls)
                    /\ Failed(c)

(* The third call of Check fails: no click follows, and Check fails. *)
C11_Witness ==
    \E c \in DOMAIN proc :
        /\ proc[c].op = "Check"
        /\ Len(proc[c].calls) = 3
        /\ proc[c].calls[3].fn = "IsSelected"
        /\ ~proc[c].calls[3].ok
        /\ Failed(c)

(***************************************************************************)
(* C14: when single-element resolution does not yield exactly one handle   *)
(* (the resolution call fails, or returns 0 or >= 2 elements), the         *)
(* operation calls no element primitive and no driver gesture, and the     *)
(* step it takes leaves the remote document as it was.                     *)
(***************************************************************************)
NotExactlyOne(call) == ~call.ok \/ Len(call.elements) # 1

(* What tells a step of caller c from a change of the document. *)
Progress(c) == <<proc[c].op, proc[c].sel, proc[c].pc, proc[c].calls>>

C14_NoHandleNoEffect ==
    /\ [](\A c \in DOMAIN proc :
            (proc[c].op \in SingleOps /\ NotExactlyOne(proc[c].calls[1])) =>
                /\ HasReturned(c)
                /\ Failed(c)
                /\ Len(proc[c].calls) = 1)
    /\ [][\A c \in DOMAIN proc :
            (/\ Progress(c)' # Progress(c)
             /\ proc'[c].op \in SingleOps
             /\ NotExactlyOne(proc'[c].calls[1]))
            => (dom' = dom /\ selected' = selected)]_vars

(* DoubleClick on a path matching two elements: neither move-to nor        *)
(* double-click is issued.                                                 *)
C14_Witness ==
    \E c \in DOMAIN proc :
        /\ proc[c].op = "DoubleClick"
        /\ proc[c].calls[1].ok
        /\ Len(proc[c].calls[1].elements) = 2
        /\ Len(proc[c].calls) = 1
        /\ Failed(c)

(***************************************************************************)
(* C15: Select aborts with an error, clicking nothing, as soon as the      *)
(* text of a scanned option cannot be read, also when an option later in   *)
(* resolved order has the requested text; and no option after the first    *)
(* match is ever read, so a failing read there cannot fail the call.       *)
(***************************************************************************)
C15_SelectReadFailure ==
    \A c \in DOMAIN proc :
        proc[c].op = "Select" =>
            LET calls == proc[c].calls
                options == calls[1].elements
                reads == CallsOf(c, "GetText")
                matching == Matching(options, proc[c].arg)
            IN  /\ \A j \in reads :
                     /\ calls[j].element = options[j - 1]
                     /\ matching # {} => j - 1 <= Lowest(matching)
                     /\ ~calls[j].ok =>
                          /\ Failed(c)
                          /\ j = Len(calls)
                          /\ CallsOf(c, "Click") = {}
                          /\ proc[c].ret.err.fmt =
                               "failed to retrieve option text for selector '%s': %s"
                /\ reads \subseteq 2..(Len(options) + 1)

(* Options A, B: the read of the first fails, the second has the text. *)
C15_Witness ==
    \E c \in DOMAIN proc :
        /\ proc[c].op = "Select" /\ Failed(c)
        /\ proc[c].arg = "B"
        /\ Len(proc[c].calls[1].elements) = 2
        /\ Matching(proc[c].calls[1].elements, "B") = {2}
        /\ Len(proc[c].calls) = 2
        /\ ~proc[c].calls[2].ok

(***************************************************************************)
(* C16: with one caller, a path that keeps resolving to the same one       *)
(* checkbox and a click that toggles it: after a successful Check the      *)
(* checkbox is selected and after a successful Uncheck it is unselected,   *)
(* whatever its state before; a second identical call after a successful   *)
(* one issues no click and leaves the state as it was.                     *)
(***************************************************************************)
OnCheckbox(c) ==
    /\ proc[c].op \in {"Check", "Uncheck"}
    /\ proc[c].calls[1].ok
    /\ Len(proc[c].calls[1].elements) = 1
    /\ ElementTable[proc[c].calls[1].elements[1]].type = "checkbox"

InTargetState(c) ==
    (proc[c].calls[1].elements[1] \in selected) = (proc[c].op = "Check")

C16_CheckIdempotent ==
    \A c \in DOMAIN proc :
        OnCheckbox(c) =>
            /\ Succeeded(c) => InTargetState(c)
            /\ (proc[c].prev.known /\ proc[c].prev.succeeded) =>
                 /\ proc[c].prev.elements = proc[c].calls[1].elements
                 /\ CallsOf(c, "Click") = {}
                 /\ InTargetState(c)

(* A second Uncheck after a successful Uncheck: it reads the state, does   *)
(* not click, and succeeds.                                                *)
C16_Witness ==
    \E c \in DOMAIN proc :
        /\ OnCheckbox(c) /\ proc[c].op = "Uncheck"
        /\ proc[c].prev.known /\ proc[c].prev.succeeded
        /\ Succeeded(c)
        /\ Len(proc[c].calls) = 3
        /\ proc[c].calls[3].fn = "IsSelected"
        /\ 1 \notin selected

(***************************************************************************)
(* C13: Check reads the selected-state and clicks in two separate steps.   *)
(* A call decides on its own read alone: it clicks only after reading      *)
(* unselected, and a call that read unselected and returned success has    *)
(* issued exactly one click, whatever the other caller did in between.     *)
(* With two concurrent calls on an unchecked checkbox both can therefore   *)
(* read unselected, both click and both succeed, and the checkbox ends     *)
(* unchecked (C13_Witness).                                                *)
(***************************************************************************)
ReadUnselected(c) ==
    /\ Len(proc[c].calls) >= 3
    /\ proc[c].calls[3].fn = "IsSelected"
    /\ proc[c].calls[3].ok
    /\ proc[c].calls[3].ret = FALSE

C13_CheckNotAtomic ==
    \A c \in DOMAIN proc :
        OnCheckbox(c) /\ proc[c].op = "Check" =>
            /\ CallsOf(c, "Click") # {} => ReadUnselected(c)
            /\ (Succeeded(c) /\ ReadUnselected(c)) =>
                 /\ Cardinality(CallsOf(c, "Click")) = 1
                 /\ \A j \in CallsOf(c, "Click") : proc[c].calls[j].ok

C13_Witness ==
    /\ \A c \in RaceCallers :
          /\ OnCheckbox(c) /\ proc[c].op = "Check"
          /\ proc[c].calls[1].elements = <<1>>
          /\ ReadUnselected(c)
          /\ CallsOf(c, "Click") # {}
          /\ Succeeded(c)
    /\ 1 \notin selected

(***************************************************************************)
(* C12: when two callers concurrently call Find (with different fragments) *)
(* and Selector on the same Selection, every Find returns a Selection      *)
(* whose path is the receiver's path, a space and that caller's own        *)
(* fragment, and no caller observes a path containing the other caller's   *)
(* fragment.                                                               *)
(***************************************************************************)
Contains(path, frag) ==
    \E j \in 1..(Len(path) - Len(frag) + 1) :
        SubSeq(path, j, j + Len(frag) - 1) = frag

C12_ConcurrentFindSafe ==
    /\ \A k \in 1..Len(sels) :
          (origin[k].recv > 0 /\ ~InFlight(k)) =>
              origin[k].path = origin[k].recvBefore \o <<" ">> \o origin[k].frag
    /\ \A c \in DOMAIN proc :
          (proc[c].op = "Selector" /\ HasReturned(c)) =>
              \A d \in DOMAIN proc \ {c} :
                  ~Contains(proc[c].ret.val, FindFrag(d))

====
